---- MODULE Spec2Model ----
(***************************************************************************)
(* Model of the audio transcoder (src/transcode.py): the TranscodeJob      *)
(* dispatcher (constructor and start()), the pool of Transcoder worker     *)
(* threads, the shared input queue with its unfinished-task count, the     *)
(* per-worker queue of temporary files and the file system they act on.    *)
(*                                                                         *)
(* A path is a sequence of components and a component (a file or folder    *)
(* name) is a sequence of tokens: a leading stem and the dot-pieces that   *)
(* follow it, so "sub/b.flac" below the input folder "in" is               *)
(* << <<"in">>, <<"sub">>, <<"b", ".flac">> >>.                             *)
(***************************************************************************)
EXTENDS Integers, Sequences, FiniteSets, TLC

VARIABLES
    args,            \* the arguments TranscodeJob(...) is called with
    job,             \* the TranscodeJob object (self), NoJob before construction
    pc,              \* position of the main thread in __init__ / start()
    error,           \* message of the exception that left __init__ / start(), or "none"
    cwd,             \* the process working directory
    tmp_cwd,         \* start(): the working directory saved at entry
    which,           \* the executables shutil.which resolves
    decoder,         \* class of the decoder start() built, or "none"
    encoder,         \* class of the encoder start() built, or "none"
    files,           \* the generator of start(): directories to list, and matches to yield
    input_queue,     \* queue.Queue shared by the workers: its items
    unfinished_tasks,\* queue.Queue.unfinished_tasks of input_queue
    threads,         \* the Transcoder threads, by index
    disk,            \* the files of the file system: path -> content
    dirs,            \* the folders of the file system
    tmp_disk,        \* the temporary files (tempfile.mkstemp) that exist
    abandoned,       \* the temporary files _delete_tmp_files gave up on
    log,             \* the log records written and the lines printed
    puts,            \* number of input_queue.put calls made
    enqueued,        \* the items input_queue.put was called with
    task_done_calls, \* number of input_queue.task_done calls made
    join_returns,    \* number of times input_queue.join() has returned
    tags_in,         \* the dict passed to _map_vorbis_comment_to_neroaactag
    tags_before,     \* the content of that dict before the first call
    tags_out,        \* the dict the last call returned
    tags_error,      \* the exception the last call raised, or "none"
    calls            \* number of calls made with tags_in

\* The variables of the metadata crosswalk.
tagvars == << tags_in, tags_before, tags_out, tags_error, calls >>

vars == << args, job, pc, error, cwd, tmp_cwd, which, decoder, encoder, files, input_queue,
           unfinished_tasks, threads, disk, dirs, tmp_disk, abandoned, log,
           puts, enqueued, task_done_calls, join_returns, tagvars >>

----------------------------------------------------------------------------
(* Bounds of the model *)

\* Number of transcodable files the input tree may hold.
MaxFiles == 2
\* Largest worker count (max_threads) for which start() is run.
MaxWorkers == 2
\* Number of times the crosswalk is called with one dict.
MaxCalls == 2
\* Longest path, in components, of a file start() enqueues.
MaxDepth == 3

(* Program constants *)

\* _delete_tmp_files: max_attempts
max_attempts == 20
\* TranscodeJob.__init__: encoding_quality must lie in MinQuality..MaxQuality
MinQuality == 0
MaxQuality == 100
\* TranscodeJob.__init__: max_threads must lie in MinThreads..MaxThreads
MinThreads == 1
MaxThreads == 64

----------------------------------------------------------------------------
(* Paths (pathlib.Path) *)

Front(s) == SubSeq(s, 1, Len(s) - 1)
Last(s) == s[Len(s)]

\* PurePath.name
Name(p) == Last(p)
\* PurePath.parent
Parent(p) == Front(p)
\* PurePath.joinpath
JoinPath(p, q) == p \o q
\* PurePath.relative_to, for p below base
RelativeTo(p, base) == SubSeq(p, Len(base) + 1, Len(p))
IsBelow(p, base) == Len(p) > Len(base) /\ SubSeq(p, 1, Len(base)) = base

\* PurePath.suffix: the last dot-piece of the name; a name that is only a
\* leading dot-piece (".flac") has no suffix.
Suffix(p) == IF Len(Name(p)) >= 2 THEN Last(Name(p)) ELSE ""
\* PurePath.with_suffix
WithSuffix(p, s) ==
    IF Suffix(p) = "" THEN Front(p) \o << Name(p) \o <<s>> >>
    ELSE Front(p) \o << Front(Name(p)) \o <<s>> >>
\* fnmatch of a name against '*' + suffix
Matches(p, s) == Last(Name(p)) = s

\* The input folder, the output folder and the folder of the binaries.
InRoot == << <<"in">> >>
OutRoot == << <<"out">> >>
BinPath == << <<"bin">> >>
HomeDir == << <<"home">> >>
\* A path that exists and is neither a file nor a folder (a device, a FIFO).
Special == << <<"dev">>, <<"fifo">> >>
\* A path that does not exist.
Missing == << <<"nowhere">> >>

Stems == << "a", "b", "c", "d" >>
\* The i-th transcodable file: odd ones directly in the input folder, even ones
\* in its subfolder.
SourceFile(i) ==
    IF i % 2 = 1 THEN InRoot \o << <<Stems[i], ".flac">> >>
    ELSE InRoot \o << <<"sub">>, <<Stems[i], ".flac">> >>
SourceFiles == { SourceFile(i) : i \in 1..MaxFiles }
\* A file of the input folder that no decoder suffix matches.
OtherFile == InRoot \o << <<"notes", ".txt">> >>

IsFile(p) == p \in DOMAIN disk
IsDir(p) == p \in dirs
Exists(p) == IsFile(p) \/ IsDir(p) \/ p = Special

----------------------------------------------------------------------------
(* Codecs: the suffix of each class and what its constructor requires *)

Executables == { "flac", "metaflac", "neroAacEnc", "neroAacTag", "opusenc" }

\* decoder_map and encoder_map of start()
decoder_map == [ flac |-> "FLACDecoder", wave |-> "WAVEDecoder" ]
encoder_map == [ opus |-> "XiphOpusEncoder", aac |-> "NeroAACEncoder",
                 flac |-> "FLACEncoder", wave |-> "WAVEEncoder" ]

\* The class attribute suffix.
ClassSuffix(class) ==
    CASE class = "FLACDecoder" -> ".flac"
      [] class = "WAVEDecoder" -> ".wav"
      [] class = "FLACEncoder" -> ".flac"
      [] class = "NeroAACEncoder" -> ".m4a"
      [] class = "XiphOpusEncoder" -> ".opus"
      [] class = "WAVEEncoder" -> ".wav"

\* The executables a constructor looks up, in the order it looks them up.
Required(class) ==
    CASE class = "FLACDecoder" -> << "flac", "metaflac" >>
      [] class = "FLACEncoder" -> << "flac", "metaflac" >>
      [] class = "NeroAACEncoder" -> << "neroAacEnc", "neroAacTag" >>
      [] class = "XiphOpusEncoder" -> << "opusenc" >>
      [] OTHER -> << >>

\* The first executable of Required(class) that is not resolvable, or "none".
FirstMissing(class, resolvable) ==
    LET req == Required(class)
        miss == { i \in 1..Len(req) : req[i] \notin resolvable }
    IN IF miss = {} THEN "none"
       ELSE req[CHOOSE i \in miss : \A k \in miss : i <= k]

\* __init__ of a codec class called with (metadata, image[, quality]): the
\* message of the exception it raises, or "none".
CodecInit(class, metadata, image, resolvable) ==
    IF class \in { "WAVEDecoder", "WAVEEncoder" }
    THEN IF metadata \/ image THEN "WAVE: no metadata or images" ELSE "none"
    ELSE IF FirstMissing(class, resolvable) # "none"
         THEN "Cannot locate required executable"
         ELSE "none"

----------------------------------------------------------------------------
(* NeroAACEncoder._map_vorbis_comment_to_neroaactag: the metadata crosswalk *)

\* A tag value is a str, a sequence of characters (or longer pieces of text),
\* or, once the track number is converted, an int.
StrVal(s) == [ type |-> "str", str |-> s, int |-> 0 ]
IntVal(n) == [ type |-> "int", str |-> << >>, int |-> n ]

\* An empty dict.
NoTags == << >>

\* schema_crosswalk after update(schema_crosswalk_proposed)
schema_crosswalk ==
    [ ARTIST |-> "artist", TITLE |-> "title", ALBUM |-> "album", DATE |-> "year",
      TRACKNUMBER |-> "track", GENRE |-> "genre", COMMENT |-> "comment",
      ORGANIZATION |-> "label", LICENSE |-> "credits", COPYRIGHT |-> "copyright",
      ISRC |-> "isrc", COMPOSER |-> "composer", TRACKTOTAL |-> "totaltracks",
      DISCNUMBER |-> "disc", DISCTOTAL |-> "totaldiscs" ]

Digits == << "0", "1", "2", "3", "4", "5", "6", "7", "8", "9" >>
IsDigit(c) == \E d \in 1..10 : Digits[d] = c
DigitValue(c) == (CHOOSE d \in 1..10 : Digits[d] = c) - 1

RECURSIVE Strip(_)
\* str.strip of blanks, as int() does before it parses.
Strip(s) ==
    IF s = << >> THEN s
    ELSE IF Head(s) = " " THEN Strip(Tail(s))
    ELSE IF s[Len(s)] = " " THEN Strip(SubSeq(s, 1, Len(s) - 1))
    ELSE s

RECURSIVE DecimalValue(_)
\* The value of a sequence of decimal digits.
DecimalValue(s) ==
    IF s = << >> THEN 0
    ELSE 10 * DecimalValue(SubSeq(s, 1, Len(s) - 1)) + DigitValue(s[Len(s)])

\* int(v): an int is returned as it is; a str is parsed as blanks, an optional
\* sign and decimal digits, and anything else raises ValueError.
ParseInt(v) ==
    IF v.type = "int" THEN [ ok |-> TRUE, value |-> v.int ]
    ELSE LET t == Strip(v.str)
             signed == t # << >> /\ Head(t) \in { "+", "-" }
             digits == IF signed THEN Tail(t) ELSE t
         IN IF digits # << >> /\ \A i \in 1..Len(digits) : IsDigit(digits[i])
            THEN [ ok |-> TRUE,
                   value |-> IF signed /\ Head(t) = "-" THEN 0 - DecimalValue(digits)
                             ELSE DecimalValue(digits) ]
            ELSE [ ok |-> FALSE, value |-> 0 ]

\* Line 506: tags_in['TITLE'] += ' [' + tags_in['VERSION'] + ']'
AppendVersion(t) ==
    [ t EXCEPT !["TITLE"] = StrVal(@.str \o << " [" >> \o t["VERSION"].str \o << "]" >>) ]

\* Lines 512-514: the fields of tags_in that schema_crosswalk maps, under
\* their mapped names.
Mapped(t) ==
    LET fields == DOMAIN t \cap DOMAIN schema_crosswalk
    IN [ nero_field \in { schema_crosswalk[k] : k \in fields } |->
            t[CHOOSE k \in fields : schema_crosswalk[k] = nero_field] ]

\* Lines 502-516: the call with the dict t. The result is the exception raised
\* (or "none"), the dict t as the call leaves it, and the dict returned.
MapVorbisCommentToNeroAACTag(t) ==
    IF "VERSION" \in DOMAIN t /\ "TITLE" \notin DOMAIN t
    THEN [ error |-> "KeyError", tags_in |-> t, tags_out |-> NoTags ]
    ELSE LET t1 == IF "VERSION" \in DOMAIN t THEN AppendVersion(t) ELSE t
         IN IF "TRACKNUMBER" \notin DOMAIN t1
            THEN [ error |-> "none", tags_in |-> t1, tags_out |-> Mapped(t1) ]
            ELSE LET n == ParseInt(t1["TRACKNUMBER"])
                 IN IF ~n.ok
                    THEN [ error |-> "ValueError", tags_in |-> t1, tags_out |-> NoTags ]
                    ELSE LET t2 == [ t1 EXCEPT !["TRACKNUMBER"] = IntVal(n.value) ]
                         IN [ error |-> "none", tags_in |-> t2, tags_out |-> Mapped(t2) ]

\* One call of the crosswalk with the dict tags_in, which a caller may pass
\* again afterwards.
Translate ==
    /\ pc = "tags"
    /\ calls < MaxCalls
    /\ LET r == MapVorbisCommentToNeroAACTag(tags_in) IN
        /\ tags_in' = r.tags_in
        /\ tags_out' = r.tags_out
        /\ tags_error' = r.error
    /\ calls' = calls + 1
    /\ UNCHANGED << tags_before, args, job, pc, error, cwd, tmp_cwd, which, decoder,
                    encoder, files, input_queue, unfinished_tasks, threads, disk, dirs,
                    tmp_disk, abandoned, log, puts, enqueued, task_done_calls, join_returns >>

----------------------------------------------------------------------------
(* TranscodeJob.__init__ *)

NoJob == << >>
Constructed == DOMAIN job # {}

\* Path.exists / Path.is_dir of the output folder once __init__ has run
\* os.makedirs(outfolder, exist_ok=True) for a folder that did not exist.
MakeDirs(p, d) == d \cup { SubSeq(p, 1, n) : n \in 1..Len(p) }

\* The quality check as it would be with the lower limit excluded.
QualityRejectedAtZero(q) == q <= MinQuality \/ q > MaxQuality

\* encoding_quality < 0 or encoding_quality > 100
QualityRejected(q) == q < MinQuality \/ q > MaxQuality
\* max_threads < 1 or max_threads > 64
ThreadsRejected(n) == n < MinThreads \/ n > MaxThreads

\* The checks of __init__ in their order: the message of the first exception
\* raised for the arguments a, or "none".
InitError(a) ==
    IF ~Exists(a.inpath) THEN "Input path does not exist"
    ELSE IF Exists(a.outfolder) /\ ~IsDir(a.outfolder) THEN "Output folder is invalid"
    ELSE IF QualityRejected(a.encoding_quality) THEN "Invalid value for encoding quality"
    ELSE IF a.source_format \notin { "flac", "wave" } THEN "Unsupported input format"
    ELSE IF a.target_format \notin { "aac", "opus", "flac", "wave" }
         THEN "Unsupported output format"
    ELSE IF ThreadsRejected(a.max_threads) THEN "Invalid value for maximum threads"
    ELSE "none"

\* The attributes __init__ sets when no check raises.
NewJob(a) ==
    [ inpath |-> a.inpath, outfolder |-> a.outfolder,
      encoding_quality |-> a.encoding_quality,
      source_format |-> a.source_format, target_format |-> a.target_format,
      max_threads |-> a.max_threads, recursive_mode |-> a.recursive_mode,
      force_overwrite |-> a.force_overwrite, copy_image |-> a.copy_image,
      files_found |-> 0 ]

\* The folders after __init__: the output folder is created, when it is missing,
\* before the value checks run.
DirsAfterInit(a) ==
    IF Exists(a.inpath) /\ ~Exists(a.outfolder) THEN MakeDirs(a.outfolder, dirs)
    ELSE dirs

Construct ==
    /\ pc = "new"
    /\ LET e == InitError(args) IN
        /\ error' = e
        /\ pc' = IF e = "none" THEN "constructed" ELSE "raised"
        /\ job' = IF e = "none" THEN NewJob(args) ELSE NoJob
    /\ dirs' = DirsAfterInit(args)
    /\ UNCHANGED << tagvars, args, cwd, tmp_cwd, which, decoder, encoder, files, input_queue,
                    unfinished_tasks, threads, disk, tmp_disk, log, puts, enqueued,
                    task_done_calls, join_returns, abandoned >>

----------------------------------------------------------------------------
(* TranscodeJob.start: working directory, codecs, thread pool *)

NoPath == << >>
Workers == 1..MaxWorkers

\* A Transcoder object before Thread.start(): its own, empty tmp_file_queue.
NewThread ==
    [ pc |-> "unstarted", infile |-> NoPath, outfile |-> NoPath,
      tmp_file_queue |-> << >>, attempts |-> 0 ]

Record(level, msg, path) == [ level |-> level, msg |-> msg, path |-> path ]

\* Leaving start() or a thread's run() by an exception.
Raise(msg) == pc' = "raised" /\ error' = msg

\* Lines 82-89: save the working directory and change to the binaries' folder.
EnterStart ==
    /\ pc = "constructed"
    /\ job.max_threads <= MaxWorkers
    /\ tmp_cwd' = cwd
    /\ cwd' = BinPath
    /\ pc' = "select_decoder"
    /\ UNCHANGED << tagvars, args, job, error, which, decoder, encoder, files, input_queue,
                    unfinished_tasks, threads, disk, dirs, tmp_disk, log, puts, enqueued,
                    task_done_calls, join_returns, abandoned >>

\* Lines 91-94: decoder_map[self.source_format](True, self.copy_image)
SelectDecoder ==
    /\ pc = "select_decoder"
    /\ LET class == decoder_map[job.source_format]
           e == CodecInit(class, TRUE, job.copy_image, which)
       IN IF e = "none"
          THEN decoder' = class /\ pc' = "select_encoder" /\ error' = error
          ELSE decoder' = decoder /\ Raise(e)
    /\ UNCHANGED << tagvars, args, job, cwd, tmp_cwd, which, encoder, files, input_queue,
                    unfinished_tasks, threads, disk, dirs, tmp_disk, log, puts, enqueued,
                    task_done_calls, join_returns, abandoned >>

\* Lines 96-99: encoder_map[self.target_format](True, self.copy_image, quality)
SelectEncoder ==
    /\ pc = "select_encoder"
    /\ LET class == encoder_map[job.target_format]
           e == CodecInit(class, TRUE, job.copy_image, which)
       IN IF e = "none"
          THEN encoder' = class /\ pc' = "pool" /\ error' = error
          ELSE encoder' = encoder /\ Raise(e)
    /\ UNCHANGED << tagvars, args, job, cwd, tmp_cwd, which, decoder, files, input_queue,
                    unfinished_tasks, threads, disk, dirs, tmp_disk, log, puts, enqueued,
                    task_done_calls, join_returns, abandoned >>

Started == { w \in Workers : threads[w].pc # "unstarted" }

\* StartThread as it would be if the loop ran for every thread the pool can
\* hold instead of max_threads times.
StartThreadAll ==
    /\ pc = "pool"
    /\ IF Cardinality(Started) < MaxWorkers
       THEN LET w == CHOOSE v \in Workers \ Started : \A u \in Workers \ Started : v <= u
            IN threads' = [threads EXCEPT ![w].pc = "get"] /\ pc' = pc
       ELSE threads' = threads /\ pc' = "resolve"
    /\ UNCHANGED << tagvars, args, job, error, cwd, tmp_cwd, which, decoder, encoder, files,
                    input_queue, unfinished_tasks, disk, dirs, tmp_disk, log, puts, enqueued,
                    task_done_calls, join_returns, abandoned >>

\* Lines 101-106: one iteration of the loop that creates and starts a daemon
\* thread, and the end of the loop after max_threads iterations.
StartThread ==
    /\ pc = "pool"
    /\ IF Cardinality(Started) < job.max_threads
       THEN LET w == CHOOSE v \in Workers \ Started : \A u \in Workers \ Started : v <= u
            IN threads' = [threads EXCEPT ![w].pc = "get"] /\ pc' = pc
       ELSE threads' = threads /\ pc' = "resolve"
    /\ UNCHANGED << tagvars, args, job, error, cwd, tmp_cwd, which, decoder, encoder, files,
                    input_queue, unfinished_tasks, disk, dirs, tmp_disk, log, puts, enqueued,
                    task_done_calls, join_returns, abandoned >>

----------------------------------------------------------------------------
(* TranscodeJob.start: the input, the queue, the barrier *)

\* queue.Queue.put: the item is appended and unfinished_tasks incremented.
Put(item) ==
    /\ input_queue' = Append(input_queue, item)
    /\ unfinished_tasks' = unfinished_tasks + 1
    /\ puts' = puts + 1
    /\ enqueued' = enqueued \cup { item }

\* The generator Path.glob / Path.rglob returns. It lists a folder only when
\* the iteration reaches it: todo holds the folders still to be listed for
\* matches ("list") and, in recursive mode, to be searched for subfolders
\* ("expand"); matches holds the matches of the folder listed last that are
\* not yet yielded.
NoFiles == [ todo |-> << >>, matches |-> {} ]
Glob(dir, recursive) ==
    [ todo |-> IF recursive
               THEN << [op |-> "list", dir |-> dir], [op |-> "expand", dir |-> dir] >>
               ELSE << [op |-> "list", dir |-> dir] >>,
      matches |-> {} ]

\* os.scandir of a folder: its files that match the pattern, its subfolders.
MatchesIn(dir, suffix) ==
    { f \in DOMAIN disk : Parent(f) = dir /\ Matches(f, suffix) }
SubDirs(dir) == { d \in dirs : Len(d) > 0 /\ Parent(d) = dir }

RECURSIVE Visits(_)
\* The entries a set of subfolders puts on the generator's stack.
Visits(ds) ==
    IF ds = {} THEN << >>
    ELSE LET d == CHOOSE x \in ds : TRUE
         IN << [op |-> "list", dir |-> d], [op |-> "expand", dir |-> d] >>
            \o Visits(ds \ {d})

RECURSIVE Advance(_, _)
\* The generator run until it has a match to yield or is exhausted.
Advance(gen, suffix) ==
    IF gen.matches # {} \/ gen.todo = << >> THEN gen
    ELSE LET top == Head(gen.todo)
             rest == Tail(gen.todo)
         IN IF top.op = "list"
            THEN Advance([ todo |-> rest, matches |-> MatchesIn(top.dir, suffix) ], suffix)
            ELSE Advance([ todo |-> Visits(SubDirs(top.dir)) \o rest, matches |-> {} ],
                         suffix)

\* Lines 108-123 and 139-140: the input is a file (suffix check, one job), a
\* folder (the generator is created) or neither.
ResolveInput ==
    /\ pc = "resolve"
    /\ IF IsFile(job.inpath)
       THEN IF Suffix(job.inpath) # ClassSuffix(decoder)
            THEN /\ Raise("Input file has wrong suffix")
                 /\ UNCHANGED << job, input_queue, unfinished_tasks, puts, enqueued, files >>
            ELSE /\ Put(<< job.inpath, job.outfolder >>)
                 /\ job' = [job EXCEPT !.files_found = @ + 1]
                 /\ pc' = "join"
                 /\ UNCHANGED << error, files >>
       ELSE IF IsDir(job.inpath)
       THEN /\ files' = Glob(job.inpath, job.recursive_mode)
            /\ pc' = "scan"
            /\ UNCHANGED << job, error, input_queue, unfinished_tasks, puts, enqueued >>
       ELSE /\ Raise("Input is neither a file nor a folder")
            /\ UNCHANGED << job, input_queue, unfinished_tasks, puts, enqueued, files >>
    /\ UNCHANGED << tagvars, args, cwd, tmp_cwd, which, decoder, encoder, threads, disk, dirs,
                    tmp_disk, log, task_done_calls, join_returns, abandoned >>

\* ScanNext as it would be if every job had the output folder itself as its
\* destination: the folder of f is not mirrored.
ScanNextFlat ==
    /\ pc = "scan"
    /\ LET gen == Advance(files, ClassSuffix(decoder)) IN
       IF gen.matches # {}
       THEN \E f \in gen.matches :
              /\ files' = [gen EXCEPT !.matches = @ \ {f}]
              /\ dirs' = dirs
              /\ Put(<< f, job.outfolder >>)
              /\ job' = [job EXCEPT !.files_found = @ + 1]
              /\ UNCHANGED << pc, error >>
       ELSE /\ files' = gen
            /\ IF job.files_found = 0
               THEN Raise("No suitable files were found in the folder")
               ELSE pc' = "join" /\ error' = error
            /\ UNCHANGED << job, dirs, input_queue, unfinished_tasks, puts, enqueued >>
    /\ UNCHANGED << tagvars, args, cwd, tmp_cwd, which, decoder, encoder, threads, disk,
                    tmp_disk, log, task_done_calls, join_returns, abandoned >>

\* Lines 125-137: one iteration of "for f in files" (the folder of f is
\* mirrored below the output folder and the job is put on the queue), or the
\* end of the loop with the check of files_found.
ScanNext ==
    /\ pc = "scan"
    /\ LET gen == Advance(files, ClassSuffix(decoder)) IN
       IF gen.matches # {}
       THEN \E f \in gen.matches :
              LET rel_path == Parent(RelativeTo(f, job.inpath))
                  subfolder == JoinPath(job.outfolder, rel_path)
              IN /\ Len(f) <= MaxDepth
                 /\ files' = [gen EXCEPT !.matches = @ \ {f}]
                 /\ dirs' = MakeDirs(subfolder, dirs)
                 /\ Put(<< f, subfolder >>)
                 /\ job' = [job EXCEPT !.files_found = @ + 1]
                 /\ UNCHANGED << pc, error >>
       ELSE /\ files' = gen
            /\ IF job.files_found = 0
               THEN Raise("No suitable files were found in the folder")
               ELSE pc' = "join" /\ error' = error
            /\ UNCHANGED << job, dirs, input_queue, unfinished_tasks, puts, enqueued >>
    /\ UNCHANGED << tagvars, args, cwd, tmp_cwd, which, decoder, encoder, threads, disk,
                    tmp_disk, log, task_done_calls, join_returns, abandoned >>

\* Join as it would be if start() waited for the queue to be empty instead of
\* for every job to be marked done.
JoinWhenEmpty ==
    /\ pc = "join"
    /\ input_queue = << >>
    /\ pc' = "joined"
    /\ join_returns' = join_returns + 1
    /\ UNCHANGED << tagvars, args, job, error, cwd, tmp_cwd, which, decoder, encoder, files,
                    input_queue, unfinished_tasks, threads, disk, dirs, tmp_disk, log,
                    puts, enqueued, task_done_calls, abandoned >>

\* Line 143: input_queue.join() returns when unfinished_tasks is zero.
Join ==
    /\ pc = "join"
    /\ unfinished_tasks = 0
    /\ pc' = "joined"
    /\ join_returns' = join_returns + 1
    /\ UNCHANGED << tagvars, args, job, error, cwd, tmp_cwd, which, decoder, encoder, files,
                    input_queue, unfinished_tasks, threads, disk, dirs, tmp_disk, log,
                    puts, enqueued, task_done_calls, abandoned >>

\* Lines 145-149: the working directory is restored and 'Done' printed.
Finish ==
    /\ pc = "joined"
    /\ cwd' = tmp_cwd
    /\ log' = log \cup { Record("print", "Done", NoPath) }
    /\ pc' = "done"
    /\ UNCHANGED << tagvars, args, job, error, tmp_cwd, which, decoder, encoder, files,
                    input_queue, unfinished_tasks, threads, disk, dirs, tmp_disk,
                    puts, enqueued, task_done_calls, join_returns, abandoned >>

----------------------------------------------------------------------------
(* Transcoder: one worker thread *)

\* The name tempfile.mkstemp returns: unique, here named after the job and the
\* use the file is created for. The empty name '' ends _delete_tmp_files.
TmpName(infile, part) == [ job |-> infile, part |-> part ]
Sentinel == TmpName(NoPath, "")

Content(kind, from) == [ kind |-> kind, from |-> from ]
WriteFile(p, content) ==
    [ q \in DOMAIN disk \cup {p} |-> IF q = p THEN content ELSE disk[q] ]
Unlink(p) == [ q \in DOMAIN disk \ {p} |-> disk[q] ]

\* Lines 232-238: the name of the target file.
CreateOutfileName(infile, outfolder, suffix) ==
    LET rel_outfile == Name(WithSuffix(infile, suffix))
    IN JoinPath(outfolder, << rel_outfile >>)

\* An exception that leaves run(): the thread ends, its traceback is printed.
Die(w, msg) ==
    /\ threads' = [threads EXCEPT ![w].pc = "dead"]
    /\ log' = log \cup { Record("stderr", msg, threads[w].infile) }

\* Get as it would be if the job were read from the queue and left on it.
GetKeepsItem(w) ==
    /\ threads[w].pc = "get"
    /\ input_queue # << >>
    /\ LET infile == Head(input_queue)[1]
           outfolder == Head(input_queue)[2]
       IN threads' = [threads EXCEPT
              ![w].pc = "transcode",
              ![w].infile = infile,
              ![w].outfile = CreateOutfileName(infile, outfolder, ClassSuffix(encoder))]
    /\ input_queue' = input_queue
    /\ UNCHANGED << tagvars, args, job, pc, error, cwd, tmp_cwd, which, decoder, encoder, files,
                    unfinished_tasks, disk, dirs, tmp_disk, log, puts, enqueued,
                    task_done_calls, join_returns, abandoned >>

\* Lines 167-168: a job is taken from the queue (the thread blocks while the
\* queue is empty) and its output name computed.
Get(w) ==
    /\ threads[w].pc = "get"
    /\ input_queue # << >>
    /\ LET infile == Head(input_queue)[1]
           outfolder == Head(input_queue)[2]
       IN threads' = [threads EXCEPT
              ![w].pc = "transcode",
              ![w].infile = infile,
              ![w].outfile = CreateOutfileName(infile, outfolder, ClassSuffix(encoder))]
    /\ input_queue' = Tail(input_queue)
    /\ UNCHANGED << tagvars, args, job, pc, error, cwd, tmp_cwd, which, decoder, encoder, files,
                    unfinished_tasks, disk, dirs, tmp_disk, log, puts, enqueued,
                    task_done_calls, join_returns, abandoned >>

\* OverwriteCheck as it would be without the return of the else branch: the
\* job goes on although its output file exists.
OverwriteCheckNoReturn(w) ==
    /\ threads[w].pc = "transcode"
    /\ LET outfile == threads[w].outfile IN
       IF Exists(outfile)
       THEN IF job.force_overwrite
            THEN \E ok \in BOOLEAN :
                   IF ok /\ IsFile(outfile)
                   THEN /\ disk' = Unlink(outfile)
                        /\ log' = log \cup { Record("debug", "Overwrite enabled", outfile) }
                        /\ threads' = [threads EXCEPT ![w].pc = "create_tmp"]
                   ELSE /\ Die(w, "unlink")
                        /\ disk' = disk
            ELSE /\ log' = log \cup { Record("debug", "Overwrite disabled", outfile) }
                 /\ threads' = [threads EXCEPT ![w].pc = "create_tmp"]
                 /\ disk' = disk
       ELSE /\ threads' = [threads EXCEPT ![w].pc = "create_tmp"]
            /\ UNCHANGED << disk, log >>
    /\ UNCHANGED << tagvars, args, job, pc, error, cwd, tmp_cwd, which, decoder, encoder, files,
                    input_queue, unfinished_tasks, dirs, tmp_disk, puts, enqueued,
                    task_done_calls, join_returns, abandoned >>

\* OverwriteCheck as it would be if force_overwrite left the existing output
\* file in place for the encoder to replace.
OverwriteCheckKeepsFile(w) ==
    /\ threads[w].pc = "transcode"
    /\ LET outfile == threads[w].outfile IN
       IF Exists(outfile)
       THEN IF job.force_overwrite
            THEN /\ log' = log \cup { Record("debug", "Overwrite enabled", outfile) }
                 /\ threads' = [threads EXCEPT ![w].pc = "create_tmp"]
                 /\ disk' = disk
            ELSE /\ log' = log \cup { Record("debug", "Overwrite disabled", outfile) }
                 /\ threads' = [threads EXCEPT ![w].pc = "delete"]
                 /\ disk' = disk
       ELSE /\ threads' = [threads EXCEPT ![w].pc = "create_tmp"]
            /\ UNCHANGED << disk, log >>
    /\ UNCHANGED << tagvars, args, job, pc, error, cwd, tmp_cwd, which, decoder, encoder, files,
                    input_queue, unfinished_tasks, dirs, tmp_disk, puts, enqueued,
                    task_done_calls, join_returns, abandoned >>

\* Lines 176-183: an existing output file is deleted (force_overwrite) or the
\* job is skipped. unlink raises when the file cannot be deleted (a read-only
\* folder, a file in use, a folder of that name).
OverwriteCheck(w) ==
    /\ threads[w].pc = "transcode"
    /\ LET outfile == threads[w].outfile IN
       IF Exists(outfile)
       THEN IF job.force_overwrite
            THEN \E ok \in BOOLEAN :
                   IF ok /\ IsFile(outfile)
                   THEN /\ disk' = Unlink(outfile)
                        /\ log' = log \cup { Record("debug", "Overwrite enabled", outfile) }
                        /\ threads' = [threads EXCEPT ![w].pc = "create_tmp"]
                   ELSE /\ Die(w, "unlink")
                        /\ disk' = disk
            ELSE /\ log' = log \cup { Record("debug", "Overwrite disabled", outfile) }
                 /\ threads' = [threads EXCEPT ![w].pc = "delete"]
                 /\ disk' = disk
       ELSE /\ threads' = [threads EXCEPT ![w].pc = "create_tmp"]
            /\ UNCHANGED << disk, log >>
    /\ UNCHANGED << tagvars, args, job, pc, error, cwd, tmp_cwd, which, decoder, encoder, files,
                    input_queue, unfinished_tasks, dirs, tmp_disk, puts, enqueued,
                    task_done_calls, join_returns, abandoned >>

\* Lines 185-187 with 206-213: tmp_audio and tmp_image are created and their
\* names put on the thread's tmp_file_queue. mkstemp raises when no file can
\* be created (no space, no temporary folder); created counts the calls that
\* succeeded before.
CreateTmpFiles(w) ==
    /\ threads[w].pc = "create_tmp"
    /\ \E created \in 0..2 :
         LET names == SubSeq(<< TmpName(threads[w].infile, "audio"),
                                TmpName(threads[w].infile, "image") >>, 1, created)
         IN /\ tmp_disk' = tmp_disk \cup { names[i] : i \in 1..created }
            /\ IF created = 2
               THEN /\ threads' = [threads EXCEPT
                          ![w].pc = "decode",
                          ![w].tmp_file_queue = @ \o names]
                    /\ log' = log
               ELSE /\ threads' = [threads EXCEPT
                          ![w].pc = "dead",
                          ![w].tmp_file_queue = @ \o names]
                    /\ log' = log \cup { Record("stderr", "mkstemp", threads[w].infile) }
    /\ UNCHANGED << tagvars, args, job, pc, error, cwd, tmp_cwd, which, decoder, encoder, files,
                    input_queue, unfinished_tasks, disk, dirs, puts, enqueued,
                    task_done_calls, join_returns, abandoned >>

\* Decode as it would be if the return of the except clause left the job
\* without cleanup: the thread goes on to the completion signal.
DecodeFailureSkipsCleanup(w) ==
    /\ threads[w].pc = "decode"
    /\ \E ok \in BOOLEAN :
         IF ok
         THEN /\ log' = log \cup { Record("info", "Decoding from file", threads[w].infile) }
              /\ threads' = [threads EXCEPT ![w].pc = "encode"]
         ELSE /\ log' = log \cup { Record("info", "Decoding from file", threads[w].infile),
                                   Record("warning", "Failed to decode file",
                                          threads[w].infile) }
              /\ threads' = [threads EXCEPT ![w].pc = "task_done"]
    /\ UNCHANGED << tagvars, args, job, pc, error, cwd, tmp_cwd, which, decoder, encoder, files,
                    input_queue, unfinished_tasks, disk, dirs, tmp_disk, puts, enqueued,
                    task_done_calls, join_returns, abandoned >>

\* Decode as it would be without the except clause: the decoder's exception
\* leaves run().
DecodeUncaught(w) ==
    /\ threads[w].pc = "decode"
    /\ \E ok \in BOOLEAN :
         IF ok
         THEN /\ log' = log \cup { Record("info", "Decoding from file", threads[w].infile) }
              /\ threads' = [threads EXCEPT ![w].pc = "encode"]
         ELSE /\ log' = log \cup { Record("info", "Decoding from file", threads[w].infile),
                                   Record("stderr", "decode", threads[w].infile) }
              /\ threads' = [threads EXCEPT ![w].pc = "dead"]
    /\ UNCHANGED << tagvars, args, job, pc, error, cwd, tmp_cwd, which, decoder, encoder, files,
                    input_queue, unfinished_tasks, disk, dirs, tmp_disk, puts, enqueued,
                    task_done_calls, join_returns, abandoned >>

\* Decode as it would be if the except clause had no return: after the
\* warning the encoder is called all the same.
DecodeFailureStillEncodes(w) ==
    /\ threads[w].pc = "decode"
    /\ \E ok \in BOOLEAN :
         IF ok
         THEN /\ log' = log \cup { Record("info", "Decoding from file", threads[w].infile) }
              /\ threads' = [threads EXCEPT ![w].pc = "encode"]
         ELSE /\ log' = log \cup { Record("info", "Decoding from file", threads[w].infile),
                                   Record("warning", "Failed to decode file",
                                          threads[w].infile) }
              /\ threads' = [threads EXCEPT ![w].pc = "encode"]
    /\ UNCHANGED << tagvars, args, job, pc, error, cwd, tmp_cwd, which, decoder, encoder, files,
                    input_queue, unfinished_tasks, disk, dirs, tmp_disk, puts, enqueued,
                    task_done_calls, join_returns, abandoned >>

\* Lines 189-196: the decoder is called; its exception is logged as a warning
\* and ends _transcode. The decoder opens the input file first (lines 278,
\* 322), so it always fails for an input file that is no longer there.
Decode(w) ==
    /\ threads[w].pc = "decode"
    /\ \E ok \in BOOLEAN :
         IF ok /\ IsFile(threads[w].infile)
         THEN /\ log' = log \cup { Record("info", "Decoding from file", threads[w].infile) }
              /\ threads' = [threads EXCEPT ![w].pc = "encode"]
         ELSE /\ log' = log \cup { Record("info", "Decoding from file", threads[w].infile),
                                   Record("warning", "Failed to decode file",
                                          threads[w].infile) }
              /\ threads' = [threads EXCEPT ![w].pc = "delete"]
    /\ UNCHANGED << tagvars, args, job, pc, error, cwd, tmp_cwd, which, decoder, encoder, files,
                    input_queue, unfinished_tasks, disk, dirs, tmp_disk, puts, enqueued,
                    task_done_calls, join_returns, abandoned >>

\* Lines 198-204: the encoder is called and writes the output file; its
\* exception is logged as a warning.
Encode(w) ==
    /\ threads[w].pc = "encode"
    /\ \E ok \in BOOLEAN :
         IF ok
         THEN /\ log' = log \cup { Record("info", "Encoding to file", threads[w].outfile) }
              /\ disk' = WriteFile(threads[w].outfile,
                                   Content("output", threads[w].infile))
         ELSE /\ log' = log \cup { Record("info", "Encoding to file", threads[w].outfile),
                                   Record("warning", "Failed to encode file",
                                          threads[w].infile) }
              /\ disk' = disk
    /\ threads' = [threads EXCEPT ![w].pc = "delete"]
    /\ UNCHANGED << tagvars, args, job, pc, error, cwd, tmp_cwd, which, decoder, encoder, files,
                    input_queue, unfinished_tasks, dirs, tmp_disk, puts, enqueued,
                    task_done_calls, join_returns, abandoned >>

----------------------------------------------------------------------------
(* Transcoder._delete_tmp_files and the completion signal *)

\* How often os.remove of one temporary file fails before it would succeed.
FailChoices == { 0, max_attempts - 1, max_attempts }

RECURSIVE RemoveLoop(_, _, _)
\* Lines 222-230: "while os.path.exists(tmp_file) and attempts < max_attempts",
\* each iteration one os.remove that fails while fails > 0. The result is the
\* number of attempts made and whether the file still exists.
RemoveLoop(attempts, exists, fails) ==
    IF exists /\ attempts < max_attempts
    THEN IF fails > 0
         THEN RemoveLoop(attempts + 1, TRUE, fails - 1)
         ELSE RemoveLoop(attempts + 1, FALSE, 0)
    ELSE [ attempts |-> attempts, exists |-> exists ]

RECURSIVE Release(_, _, _)
\* Lines 221-230: "for tmp_file in iter(self.tmp_file_queue.get, '')": the
\* names are taken from the queue up to the empty name; fails[tmp_file] of the
\* os.remove calls on tmp_file fail. The result is what is left of the queue,
\* the temporary files that still exist, those among them the loop gave up on
\* and the attempts made on the last name.
Release(queue, st, fails) ==
    LET tmp_file == Head(queue) IN
    IF tmp_file = Sentinel
    THEN [ queue |-> Tail(queue), tmp_disk |-> st.tmp_disk,
           abandoned |-> st.abandoned, attempts |-> st.attempts ]
    ELSE LET r == RemoveLoop(0, tmp_file \in st.tmp_disk, fails[tmp_file])
         IN Release(Tail(queue),
                    [ tmp_disk |-> IF r.exists THEN st.tmp_disk
                                   ELSE st.tmp_disk \ {tmp_file},
                      abandoned |-> IF r.exists THEN st.abandoned \cup {tmp_file}
                                    ELSE st.abandoned,
                      attempts |-> r.attempts ],
                    fails)

\* The names on a queue.
Range(q) == { q[i] : i \in 1..Len(q) }

\* run() as it would be with lines 170 and 171 exchanged: the completion signal
\* is given first (the job is then no longer held), the temporary files are
\* deleted after it.
DeleteTmpFilesAfterSignal(w) ==
    /\ threads[w].pc = "delete"
    /\ IF threads[w].infile # NoPath
       THEN /\ unfinished_tasks' = unfinished_tasks - 1
            /\ task_done_calls' = task_done_calls + 1
            /\ threads' = [threads EXCEPT ![w].infile = NoPath, ![w].outfile = NoPath]
            /\ UNCHANGED << tmp_disk, abandoned >>
       ELSE /\ \E fails \in [ Range(threads[w].tmp_file_queue) -> FailChoices ] :
                 LET r == Release(Append(threads[w].tmp_file_queue, Sentinel),
                                  [ tmp_disk |-> tmp_disk, abandoned |-> abandoned,
                                    attempts |-> 0 ], fails)
                 IN /\ threads' = [threads EXCEPT ![w].pc = "get",
                                                  ![w].tmp_file_queue = r.queue]
                    /\ tmp_disk' = r.tmp_disk
                    /\ abandoned' = r.abandoned
            /\ UNCHANGED << unfinished_tasks, task_done_calls >>
    /\ UNCHANGED << tagvars, args, job, pc, error, cwd, tmp_cwd, which, decoder, encoder, files,
                    input_queue, disk, dirs, log, puts, enqueued, join_returns >>

\* DeleteTmpFiles as it would be if a name whose file could not be deleted
\* were put back on the queue, to be tried again after the next job.
DeleteTmpFilesKeepsFailed(w) ==
    /\ threads[w].pc = "delete"
    /\ \E fails \in [ Range(threads[w].tmp_file_queue) -> FailChoices ] :
         LET r == Release(Append(threads[w].tmp_file_queue, Sentinel),
                          [ tmp_disk |-> tmp_disk, abandoned |-> abandoned,
                            attempts |-> 0 ], fails)
         IN /\ threads' = [threads EXCEPT
                  ![w].pc = "task_done",
                  ![w].tmp_file_queue = SelectSeq(@, LAMBDA t : t \in r.tmp_disk),
                  ![w].attempts = r.attempts]
            /\ tmp_disk' = r.tmp_disk
            /\ abandoned' = r.abandoned
    /\ UNCHANGED << tagvars, args, job, pc, error, cwd, tmp_cwd, which, decoder, encoder, files,
                    input_queue, unfinished_tasks, disk, dirs, log, puts, enqueued,
                    task_done_calls, join_returns >>

\* Lines 215-230: the empty name is put behind the recorded names and every
\* name before it is taken from the queue and removed, in at most max_attempts
\* attempts each.
DeleteTmpFiles(w) ==
    /\ threads[w].pc = "delete"
    /\ \E fails \in [ Range(threads[w].tmp_file_queue) -> FailChoices ] :
         LET r == Release(Append(threads[w].tmp_file_queue, Sentinel),
                          [ tmp_disk |-> tmp_disk, abandoned |-> abandoned,
                            attempts |-> 0 ], fails)
         IN /\ threads' = [threads EXCEPT ![w].pc = "task_done",
                                          ![w].tmp_file_queue = r.queue,
                                          ![w].attempts = r.attempts]
            /\ tmp_disk' = r.tmp_disk
            /\ abandoned' = r.abandoned
    /\ UNCHANGED << tagvars, args, job, pc, error, cwd, tmp_cwd, which, decoder, encoder, files,
                    input_queue, unfinished_tasks, disk, dirs, log, puts, enqueued,
                    task_done_calls, join_returns >>

\* Line 171: input_queue.task_done(), and back to the head of the loop.
TaskDone(w) ==
    /\ threads[w].pc = "task_done"
    /\ unfinished_tasks' = unfinished_tasks - 1
    /\ task_done_calls' = task_done_calls + 1
    /\ threads' = [threads EXCEPT ![w].pc = "get", ![w].infile = NoPath,
                                  ![w].outfile = NoPath, ![w].attempts = 0]
    /\ UNCHANGED << tagvars, args, job, pc, error, cwd, tmp_cwd, which, decoder, encoder, files,
                    input_queue, disk, dirs, tmp_disk, log, puts, enqueued, join_returns, abandoned >>

\* Lines 165-171: the steps of run().
Run(w) ==
    \/ Get(w)
    \/ OverwriteCheck(w)
    \/ CreateTmpFiles(w)
    \/ Decode(w)
    \/ Encode(w)
    \/ DeleteTmpFiles(w)
    \/ TaskDone(w)

----------------------------------------------------------------------------
(* The states a run starts from *)

\* The input trees: any of the transcodable files, and a file of another type.
Trees == SUBSET SourceFiles

\* The folders that exist with the input tree.
TreeDirs(tree) ==
    { InRoot, BinPath, HomeDir } \cup { Parent(f) : f \in tree }

\* The output file of the run for a file of the tree, for the target format.
OutputOf(f, a) ==
    CreateOutfileName(f, JoinPath(a.outfolder, Parent(RelativeTo(f, InRoot))),
                      ClassSuffix(encoder_map[a.target_format]))

\* The file system before a run: the tree, and the output files an earlier run
\* with the same arguments has left for some of its files.
DiskOf(tree, left, a) ==
    LET outs == { OutputOf(f, a) : f \in left }
    IN [ p \in tree \cup {OtherFile} \cup outs |->
            IF p \in tree \/ p = OtherFile THEN Content("source", NoPath)
            ELSE Content("old", NoPath) ]

\* The arguments start() is run with: each passes the checks of __init__.
StartArgs ==
    [ inpath : { InRoot, SourceFile(1), OtherFile, Special },
      outfolder : { OutRoot },
      recursive_mode : BOOLEAN,
      force_overwrite : BOOLEAN,
      source_format : { "flac", "wave" },
      target_format : { "opus", "aac", "flac", "wave" },
      encoding_quality : { 50 },
      copy_image : { FALSE },
      max_threads : 1..MaxWorkers ]

\* The sets of executables that are resolvable.
WhichChoices ==
    { Executables, { "flac", "metaflac" }, {} }

\* What does not depend on the arguments.
InitRest ==
    /\ error = "none"
    /\ cwd = HomeDir
    /\ tmp_cwd = NoPath
    /\ which \in WhichChoices
    /\ decoder = "none"
    /\ encoder = "none"
    /\ files = NoFiles
    /\ input_queue = << >>
    /\ unfinished_tasks = 0
    /\ threads = [ w \in Workers |-> NewThread ]
    /\ tmp_disk = {}
    /\ abandoned = {}
    /\ log = {}
    /\ puts = 0
    /\ enqueued = {}
    /\ task_done_calls = 0
    /\ join_returns = 0

\* No dict has been passed to the crosswalk.
NoCall ==
    /\ tags_in = NoTags
    /\ tags_before = NoTags
    /\ tags_out = NoTags
    /\ tags_error = "none"
    /\ calls = 0

\* The state after TranscodeJob(...) has returned.
Init ==
    /\ args \in StartArgs
    /\ \E tree \in Trees : \E left \in SUBSET tree :
         /\ disk = DiskOf(tree, left, args)
         /\ dirs = MakeDirs(args.outfolder,
                            TreeDirs(tree) \cup { Parent(p) : p \in DOMAIN disk })
    /\ InitError(args) = "none"
    /\ job = NewJob(args)
    /\ pc = "constructed"
    /\ InitRest
    /\ NoCall

Next ==
    \/ EnterStart
    \/ SelectDecoder
    \/ SelectEncoder
    \/ StartThread
    \/ ResolveInput
    \/ ScanNext
    \/ Join
    \/ Finish
    \/ \E w \in Workers : Run(w)

Spec == Init /\ [][Next]_vars

\* The main thread and every started thread keep running when they can.
Fairness ==
    /\ WF_vars(EnterStart \/ SelectDecoder \/ SelectEncoder \/ StartThread
               \/ ResolveInput \/ ScanNext \/ Join \/ Finish)
    /\ \A w \in Workers : WF_vars(Run(w))

\* The runs whose progress is examined: the codecs can be built, so that every
\* run reaches the thread pool or stops at the check of the input.
InitFair ==
    /\ Init
    /\ args.source_format = "flac"
    /\ args.target_format = "opus"
    /\ which = Executables

FairSpec == InitFair /\ [][Next]_vars /\ Fairness

----------------------------------------------------------------------------
(* The constructor on its own: TranscodeJob(...) called with any arguments *)

\* An output folder that does not exist yet.
NewOut == << <<"out">>, <<"new">> >>

CtorArgs ==
    [ inpath : { InRoot, SourceFile(1), Special, Missing },
      outfolder : { OutRoot, NewOut, OtherFile },
      recursive_mode : BOOLEAN,
      force_overwrite : BOOLEAN,
      source_format : { "flac", "wave", "mp3" },
      target_format : { "opus", "aac", "flac", "wave", "mp3" },
      encoding_quality : { MinQuality - 1, MinQuality, 50, MaxQuality, MaxQuality + 1 },
      copy_image : BOOLEAN,
      max_threads : { MinThreads - 1, MinThreads, MaxWorkers, MaxThreads,
                      MaxThreads + 1 } ]

\* The state in which TranscodeJob(...) is called.
InitCtor ==
    /\ args \in CtorArgs
    /\ disk = DiskOf(SourceFiles, {}, args)
    /\ dirs = TreeDirs(SourceFiles) \cup { OutRoot }
    /\ job = NoJob
    /\ pc = "new"
    /\ InitRest
    /\ NoCall

SpecCtor == InitCtor /\ [][Construct]_vars

----------------------------------------------------------------------------
(* The crosswalk on its own: called with any dict of Vorbis comment fields *)

\* The field names of the dicts: mapped fields, VERSION, and a field without a
\* mapping.
TagFields == { "TITLE", "VERSION", "TRACKNUMBER", "DATE", "ORGANIZATION", "PERFORMER" }

\* The values a field may have.
TagValues(field) ==
    CASE field = "TITLE" -> { StrVal(<< "Song" >>) }
      [] field = "VERSION" -> { StrVal(<< "Remix" >>) }
      [] field = "TRACKNUMBER" ->
            { StrVal(<< "0", "3" >>), StrVal(<< "1", "2" >>), StrVal(<< " ", "7" >>),
              StrVal(<< "3", "/", "1", "2" >>), StrVal(<< >>) }
      [] field = "DATE" -> { StrVal(<< "2001" >>) }
      [] field = "ORGANIZATION" -> { StrVal(<< "Label" >>) }
      [] field = "PERFORMER" -> { StrVal(<< "Band" >>) }

\* The dicts a decoder may return: any of the fields, each with one of its values.
TagSets ==
    UNION { { t \in [ fields -> UNION { TagValues(f) : f \in fields } ] :
                \A f \in fields : t[f] \in TagValues(f) } : fields \in SUBSET TagFields }

\* A NeroAACEncoder is about to be handed a dict of tags.
InitTags ==
    /\ args \in { a \in StartArgs : a.inpath = InRoot /\ a.target_format = "aac"
                                     /\ a.source_format = "flac" /\ ~a.recursive_mode
                                     /\ ~a.force_overwrite /\ a.max_threads = 1 }
    /\ disk = DiskOf(SourceFiles, {}, args)
    /\ dirs = MakeDirs(args.outfolder, TreeDirs(SourceFiles))
    /\ job = NewJob(args)
    /\ pc = "tags"
    /\ InitRest
    /\ which = Executables
    /\ tags_in \in TagSets
    /\ tags_before = tags_in
    /\ tags_out = NoTags
    /\ tags_error = "none"
    /\ calls = 0

SpecTags == InitTags /\ [][Translate]_vars

----------------------------------------------------------------------------
(* Runs over an input folder whose file names begin with a dot *)

\* Two files of the input folder that the pattern '*.flac' matches: the name
\* of the first is the suffix alone, that of the second the suffix twice.
HiddenFile == InRoot \o << << ".flac" >> >>
HiddenFileTwice == InRoot \o << << ".flac", ".flac" >> >>
HiddenFiles == { HiddenFile, HiddenFileTwice }

\* The state after TranscodeJob(...) has returned, for a folder with these files.
InitNames ==
    /\ args \in { a \in StartArgs : /\ a.inpath = InRoot
                                    /\ a.source_format = "flac"
                                    /\ a.target_format \in { "opus", "aac" } }
    /\ disk = DiskOf(HiddenFiles, {}, args)
    /\ dirs = MakeDirs(args.outfolder, TreeDirs(HiddenFiles))
    /\ InitError(args) = "none"
    /\ job = NewJob(args)
    /\ pc = "constructed"
    /\ InitRest
    /\ which = Executables
    /\ NoCall

SpecNames == InitNames /\ [][Next]_vars

----------------------------------------------------------------------------
(* Runs whose output folder lies inside the input folder *)

\* An output folder below the input folder.
InsideOut == InRoot \o << << "out" >> >>

\* The state after TranscodeJob(...) has returned, for that output folder and
\* a target format whose suffix a FLAC source may share.
InitInside ==
    /\ args \in { [ a EXCEPT !.outfolder = InsideOut ] :
                    a \in { b \in StartArgs : /\ b.inpath = InRoot
                                              /\ b.source_format = "flac"
                                              /\ b.target_format \in { "flac", "opus" } } }
    /\ \E tree \in Trees \ { {} } :
         /\ disk = DiskOf(tree, {}, args)
         /\ dirs = MakeDirs(args.outfolder, TreeDirs(tree))
    /\ InitError(args) = "none"
    /\ job = NewJob(args)
    /\ pc = "constructed"
    /\ InitRest
    /\ which = Executables
    /\ NoCall

SpecInside == InitInside /\ [][Next]_vars

----------------------------------------------------------------------------
(* Runs whose output folder is the input folder *)

\* The state after TranscodeJob(...) has returned, with the input folder given
\* as output folder too, for a folder or a single file as input.
InitInPlace ==
    /\ args \in { [ a EXCEPT !.outfolder = InRoot ] :
                    a \in { b \in StartArgs : /\ b.inpath \in { InRoot, SourceFile(1) }
                                              /\ b.source_format = "flac"
                                              /\ b.target_format \in { "flac", "opus" } } }
    /\ \E tree \in Trees :
         /\ SourceFile(1) \in tree
         /\ disk = DiskOf(tree, {}, args)
         /\ dirs = MakeDirs(args.outfolder, TreeDirs(tree))
    /\ InitError(args) = "none"
    /\ job = NewJob(args)
    /\ pc = "constructed"
    /\ InitRest
    /\ which = Executables
    /\ NoCall

SpecInPlace == InitInPlace /\ [][Next]_vars

----------------------------------------------------------------------------
(* Properties *)

Returned == pc \in { "done", "raised" }
PassedBarrier == pc \in { "joined", "done" }
DonePrinted == Record("print", "Done", NoPath) \in log
Dead == { w \in Workers : threads[w].pc = "dead" }
\* The threads that hold a job: between the dequeue and the completion signal.
Busy == { w \in Workers : threads[w].infile # NoPath }

\* C1: start() passes input_queue.join() only when every enqueued job has been
\* marked done: at the barrier and after it the number of task_done calls
\* equals the number of put calls and of files found, no job is left on the
\* queue or held by a thread, 'Done' is printed only behind the barrier, and
\* the barrier is passed at most once, exactly once when start() is behind it.
Thm_C1 ==
    /\ join_returns <= 1
    /\ (join_returns = 1) = PassedBarrier
    /\ DonePrinted => pc = "done"
    /\ PassedBarrier =>
         /\ task_done_calls = puts
         /\ puts = job.files_found
         /\ puts >= 1
         /\ unfinished_tasks = 0
         /\ input_queue = << >>
         /\ Busy = {}

\* start() has returned after MaxFiles jobs were enqueued for MaxWorkers threads.
Wit_C1 ==
    /\ pc = "done"
    /\ DonePrinted
    /\ puts = MaxFiles
    /\ task_done_calls = MaxFiles
    /\ job.max_threads = MaxWorkers


\* The errors of a job that are none of: skipped, decode failure, encode
\* failure, success, temporary files undeletable. They are the failure to
\* delete an existing output file and the failure to create a temporary file.
OtherJobError ==
    \E r \in log : r.level = "stderr" /\ r.msg \in { "unlink", "mkstemp" }

\* C2: with the main thread and the worker threads scheduled fairly, start()
\* eventually returns (or raises) in every run in which each job is skipped,
\* fails in decode, fails in encode or succeeds, whether or not its temporary
\* files can be deleted.
Thm_C2 == ([]~OtherJobError) => <>Returned

\* start() has returned after a run with a decode failure, an encode failure
\* and a temporary file that could not be deleted.
Wit_C2 ==
    /\ pc = "done"
    /\ \E r \in log : r.level = "warning" /\ r.msg = "Failed to decode file"
    /\ \E r \in log : r.level = "warning" /\ r.msg = "Failed to encode file"
    /\ abandoned # {}
    /\ ~OtherJobError


\* A step of thread w.
StepOf(w) == threads'[w] # threads[w]
Warning(msg, infile) == Record("warning", msg, infile)
Warned(infile) == \E r \in log : r.level = "warning" /\ r.path = infile

\* C3: a decode or encode failure does not end the thread. A thread leaves the
\* decoder for the encoder or, with the warning logged, for cleanup; it leaves
\* the encoder for cleanup, with the warning logged when no output was
\* written; from cleanup it goes to the completion signal and from there back
\* to waiting, the job counted as done. No thread that has ended holds a job
\* whose failure was logged.
Thm_C3 ==
    /\ [](\A w \in Dead : ~Warned(threads[w].infile))
    /\ [][\A w \in Workers :
            /\ (threads[w].pc = "decode" /\ StepOf(w)) =>
                 \/ threads'[w].pc = "encode"
                 \/ /\ threads'[w].pc = "delete"
                    /\ Warning("Failed to decode file", threads[w].infile) \in log'
            /\ (threads[w].pc = "encode" /\ StepOf(w)) =>
                 /\ threads'[w].pc = "delete"
                 /\ disk' = disk =>
                      Warning("Failed to encode file", threads[w].infile) \in log'
            /\ (threads[w].pc = "delete" /\ StepOf(w)) =>
                 threads'[w].pc = "task_done"
            /\ (threads[w].pc = "task_done" /\ StepOf(w)) =>
                 /\ threads'[w].pc = "get"
                 /\ task_done_calls' = task_done_calls + 1
                 /\ unfinished_tasks' = unfinished_tasks - 1
       ]_vars

\* The run has ended with 'Done' after one job failed in decode and another
\* job was transcoded.
Wit_C3 ==
    /\ pc = "done"
    /\ DonePrinted
    /\ \E f \in SourceFiles : \E p \in DOMAIN disk :
         /\ Warning("Failed to decode file", f) \in log
         /\ disk[p].kind = "output"
         /\ disk[p].from # f
    /\ \A w \in Workers : threads[w].pc \in { "get", "unstarted" }

\* C4: no error of a job ends a worker thread: no thread is ever ended by an
\* exception between the dequeue and the completion signal.
Cex_C4 == Dead = {}

\* C5: a temporary file that exists was given up after max_attempts failed
\* deletions, or belongs to a job its thread still holds before the end of
\* cleanup: once a job is through cleanup, after success, decode failure or
\* encode failure, none of its temporary files is left unless its deletion
\* failed max_attempts times.
Thm_C5 ==
    \A t \in tmp_disk :
        \/ t \in abandoned
        \/ \E w \in Workers :
             /\ threads[w].infile = t.job
             /\ threads[w].pc \in { "decode", "encode", "delete", "dead" }

\* A thread is through cleanup after an encode failure, its last temporary
\* file deleted at the last attempt, and none of the job's files is left.
Wit_C5 ==
    \E w \in Workers :
        /\ threads[w].pc = "task_done"
        /\ Warning("Failed to encode file", threads[w].infile) \in log
        /\ threads[w].attempts = max_attempts
        /\ \A t \in tmp_disk : t.job # threads[w].infile

\* C6: cleanup precedes the completion signal: a thread that is about to call
\* task_done, or has called it, has an empty tmp_file_queue, and behind the
\* barrier of start() every thread is waiting for a job (or was never
\* started), no temporary file is recorded for deletion and every temporary
\* file that exists is one cleanup gave up on.
Thm_C6 ==
    /\ \A w \in Workers :
         threads[w].pc \in { "task_done", "get", "unstarted" } =>
            threads[w].tmp_file_queue = << >>
    /\ PassedBarrier =>
         /\ \A w \in Workers :
              /\ threads[w].pc \in { "get", "unstarted" }
              /\ threads[w].tmp_file_queue = << >>
         /\ tmp_disk \subseteq abandoned

\* start() has returned after MaxFiles jobs were decoded, with no temporary
\* file left.
Wit_C6 ==
    /\ pc = "done"
    /\ \A f \in SourceFiles : Record("info", "Decoding from file", f) \in log
    /\ tmp_disk = {}
    /\ \E p \in DOMAIN disk : disk[p].kind = "output"


\* C7: with every executable resolvable, start() builds the decoder and the
\* encoder of each supported pair of formats without an error: once start() is
\* past the selection of the codecs, or has raised there, both are built.
Cex_C7 ==
    ( /\ which = Executables
      /\ job.source_format \in { "flac", "wave" }
      /\ job.target_format \in { "opus", "aac", "flac", "wave" }
      /\ pc \notin { "constructed", "select_decoder", "select_encoder" } )
    => (decoder # "none" /\ encoder # "none")

\* C8: every configuration error is raised before a worker thread is started:
\* when start() has raised, no thread has been started.
Cex_C8 == pc = "raised" => Started = {}

\* The supported format names and the arguments that pass the path checks.
PathsAccepted == args.inpath # Missing /\ args.outfolder # OtherFile
FormatsAccepted ==
    /\ args.source_format \in { "flac", "wave" }
    /\ args.target_format \in { "opus", "aac", "flac", "wave" }

\* C9: for arguments that pass the path checks, __init__ raises for the
\* quality exactly when it is not in 0..100; with the quality and the format
\* names accepted it raises for max_threads exactly when it is not in 1..64;
\* and whenever __init__ raises, no job object, no queue item and no thread
\* exists.
Thm_C9 ==
    pc # "new" =>
      /\ PathsAccepted =>
           ( (error = "Invalid value for encoding quality")
             = (args.encoding_quality < 0 \/ args.encoding_quality > 100) )
      /\ (PathsAccepted /\ FormatsAccepted /\ args.encoding_quality \in 0..100) =>
           /\ (error = "Invalid value for maximum threads")
              = (args.max_threads < 1 \/ args.max_threads > 64)
           /\ Constructed = (args.max_threads \in 1..64)
           /\ Constructed =>
                /\ job.encoding_quality = args.encoding_quality
                /\ job.max_threads = args.max_threads
      /\ pc = "raised" =>
           /\ ~Constructed
           /\ Started = {}
           /\ input_queue = << >>
           /\ puts = 0

\* A job was constructed with quality 0 and 64 threads.
Wit_C9 ==
    /\ pc = "constructed"
    /\ Constructed
    /\ args.encoding_quality = 0
    /\ args.max_threads = 64

\* The log records of a decode or an encode attempt.
Attempts(l) == { r \in l : r.level \in { "info", "warning" } }
\* A second run without force_overwrite: every file of the input tree that the
\* decoder suffix matches has its output file, left by an earlier run.
SecondRun ==
    /\ ~job.force_overwrite
    /\ \A f \in DOMAIN disk :
         (IsBelow(f, InRoot) /\ Matches(f, ClassSuffix(decoder_map[job.source_format])))
         => /\ OutputOf(f, args) \in DOMAIN disk
            /\ disk[OutputOf(f, args)].kind = "old"

\* C10: without force_overwrite, a thread whose job has an existing output
\* path goes from the overwrite check straight to cleanup: no temporary file
\* is created or recorded, no decode or encode is logged and no file changes;
\* cleanup with nothing recorded changes no file and leads to the completion
\* signal; no step deletes or changes a file an earlier run has left. In a
\* second run over the same inputs no decode or encode is attempted, no
\* temporary file created and no output written.
Thm_C10 ==
    /\ [](SecondRun => /\ Attempts(log) = {}
                       /\ tmp_disk = {}
                       /\ \A p \in DOMAIN disk : disk[p].kind # "output")
    /\ [][~job.force_overwrite =>
            /\ \A p \in DOMAIN disk :
                 disk[p].kind = "old" => (p \in DOMAIN disk' /\ disk'[p] = disk[p])
            /\ \A w \in Workers :
                 /\ ( /\ threads[w].pc = "transcode"
                      /\ Exists(threads[w].outfile)
                      /\ StepOf(w) ) =>
                        /\ threads'[w].pc = "delete"
                        /\ threads'[w].tmp_file_queue = << >>
                        /\ Attempts(log') = Attempts(log)
                        /\ UNCHANGED << disk, tmp_disk >>
                 /\ ( /\ threads[w].pc = "delete"
                      /\ threads[w].tmp_file_queue = << >>
                      /\ StepOf(w) ) =>
                        /\ threads'[w].pc = "task_done"
                        /\ UNCHANGED << disk, tmp_disk, log >>
       ]_vars

\* A second run over MaxFiles inputs has returned: every job was skipped and
\* marked done.
Wit_C10 ==
    /\ pc = "done"
    /\ SecondRun
    /\ puts = MaxFiles
    /\ task_done_calls = MaxFiles
    /\ Cardinality({ r \in log : r.msg = "Overwrite disabled" }) = MaxFiles

\* The fields of a dict that have an entry in the crosswalk table.
MappedFields(t) == DOMAIN t \cap DOMAIN schema_crosswalk

\* C11: for every dict of Vorbis comment fields the crosswalk returns a dict:
\* it holds exactly the fields that have an entry in the table, under their
\* mapped names (so no version and no unmapped field); title is the TITLE
\* value with ' [<version>]' appended when VERSION is present, track is the
\* TRACKNUMBER value as an integer, and every other field has its value
\* unchanged.
Cex_C11 ==
    calls = 1 =>
      /\ tags_error = "none"
      /\ DOMAIN tags_out = { schema_crosswalk[k] : k \in MappedFields(tags_before) }
      /\ \A k \in MappedFields(tags_before) :
           tags_out[schema_crosswalk[k]] =
             IF k = "TITLE" /\ "VERSION" \in DOMAIN tags_before
             THEN StrVal(tags_before["TITLE"].str \o << " [" >>
                         \o tags_before["VERSION"].str \o << "]" >>)
             ELSE IF k = "TRACKNUMBER"
             THEN IntVal(ParseInt(tags_before["TRACKNUMBER"]).value)
             ELSE tags_before[k]

\* C12: a call of the crosswalk leaves the dict it is given as it was.
Cex_C12 == calls >= 1 => tags_in = tags_before

\* The files of the input folder that were there when start() was called (a
\* file the run writes has the kind "output") and that the pattern of the
\* decoder matches: directly in the folder, or anywhere below it in recursive
\* mode.
Discoverable ==
    { f \in DOMAIN disk :
        /\ disk[f].kind # "output"
        /\ Matches(f, ClassSuffix(decoder_map[job.source_format]))
        /\ IF job.recursive_mode THEN IsBelow(f, job.inpath)
           ELSE Parent(f) = job.inpath }

\* The job start() is to enqueue for the file f: f with the output folder
\* joined with the folder of f relative to the input folder.
JobFor(f) == << f, JoinPath(job.outfolder, Parent(RelativeTo(f, job.inpath))) >>

\* start() is through the loop over the files of a folder.
Scanned == IsDir(job.inpath) /\ pc \in { "join", "joined", "done" }

InFlight == puts - Len(input_queue) - task_done_calls
\* start() is past the loop that starts the threads.
PoolStarted == pc \in { "resolve", "scan", "join", "joined", "done" }

\* C14: start() never has more than max_threads threads started and has
\* exactly max_threads once it is past the loop that starts them; the jobs
\* between dequeue and completion signal are the jobs the threads hold, one
\* per thread, so at most max_threads; and a thread takes a job only when it
\* holds none.
Thm_C14 ==
    /\ [](/\ Cardinality(Started) <= job.max_threads
          /\ PoolStarted => Cardinality(Started) = job.max_threads
          /\ Busy \subseteq Started
          /\ InFlight = Cardinality(Busy)
          /\ InFlight <= job.max_threads)
    /\ [][\A w \in Workers :
            (threads'[w].infile # threads[w].infile /\ threads'[w].infile # NoPath)
            => (threads[w].infile = NoPath /\ threads[w].pc = "get")]_vars

\* MaxWorkers threads are started and each of them holds a job of its own.
Wit_C14 ==
    /\ job.max_threads = MaxWorkers
    /\ Busy = Workers
    /\ InFlight = MaxWorkers
    /\ \A v, w \in Workers : v # w => threads[v].infile # threads[w].infile

\* The inputs of the jobs on the queue and of the jobs the threads hold.
Queued == { input_queue[i][1] : i \in 1..Len(input_queue) }
Held == { threads[w].infile : w \in Busy }
\* The job of the input f has been through _transcode: its decoding or its
\* skipping is logged.
Executed(f) ==
    \/ Record("info", "Decoding from file", f) \in log
    \/ \E item \in enqueued :
         /\ item[1] = f
         /\ Record("debug", "Overwrite disabled",
                   CreateOutfileName(f, item[2], ClassSuffix(encoder))) \in log

\* C15: every job enqueued is in one place: on the queue once, held by one
\* thread, or marked done; the queue grows only by a put of start(), never by
\* a step of a thread, so that no job comes back after a failure; a thread
\* decodes only a job that no thread has decoded before; and when start() has
\* returned every job enqueued has been executed and marked done.
Thm_C15 ==
    /\ [](/\ \A i, j \in 1..Len(input_queue) : input_queue[i] = input_queue[j] => i = j
          /\ Queued \cap Held = {}
          /\ \A v, w \in Busy : threads[v].infile = threads[w].infile => v = w
          /\ Queued \cup Held \subseteq { item[1] : item \in enqueued }
          /\ Cardinality(enqueued) = Len(input_queue) + Cardinality(Busy) + task_done_calls
          /\ pc = "done" => /\ task_done_calls = Cardinality(enqueued)
                            /\ \A item \in enqueued : Executed(item[1]))
    /\ [][/\ Len(input_queue') > Len(input_queue) =>
               (pc \in { "resolve", "scan" } /\ threads' = threads /\ puts' = puts + 1)
          /\ \A w \in Workers :
               (threads[w].pc = "decode" /\ StepOf(w)) =>
                  /\ Record("info", "Decoding from file", threads[w].infile) \notin log
                  /\ \A v \in Workers \ {w} : threads'[v] = threads[v]
         ]_vars

\* start() has returned with MaxWorkers threads after MaxFiles jobs, one of
\* which failed in decode and left no output, each marked done once.
Wit_C15 ==
    /\ pc = "done"
    /\ job.max_threads = MaxWorkers
    /\ Cardinality(enqueued) = MaxFiles
    /\ task_done_calls = MaxFiles
    /\ \E f \in SourceFiles :
         /\ Warning("Failed to decode file", f) \in log
         /\ \A p \in DOMAIN disk : disk[p].from # f

\* The positions a thread can be at after a step from the position p.
StepsFrom(p) ==
    CASE p = "unstarted" -> { "get" }
      [] p = "get" -> { "transcode" }
      [] p = "transcode" -> { "create_tmp", "delete", "dead" }
      [] p = "create_tmp" -> { "decode", "dead" }
      [] p = "decode" -> { "encode", "delete" }
      [] p = "encode" -> { "delete" }
      [] p = "delete" -> { "task_done" }
      [] p = "task_done" -> { "get" }
      [] OTHER -> { }

\* C16: the steps of a job come in the order of run() and _transcode, for
\* one and the same job from the dequeue to the completion signal: from
\* the dequeue to the overwrite check, from there to the temporary files and
\* the decoder (or to cleanup when the job is skipped), from the decoder to
\* the encoder or, after a failure, to cleanup, from the encoder to cleanup,
\* from cleanup to the completion signal and from there to the next dequeue.
\* A thread at the encoder has decoded its job without a failure, and a job
\* whose decode failed gets no encode: its thread comes to cleanup with no
\* encoding logged for its output.
Thm_C16 ==
    /\ [](\A w \in Workers :
            /\ threads[w].pc = "encode" =>
                 /\ Record("info", "Decoding from file", threads[w].infile) \in log
                 /\ Warning("Failed to decode file", threads[w].infile) \notin log
            /\ ( /\ threads[w].pc \in { "delete", "task_done" }
                 /\ Warning("Failed to decode file", threads[w].infile) \in log )
               => Record("info", "Encoding to file", threads[w].outfile) \notin log)
    /\ [][\A w \in Workers :
            StepOf(w) =>
              /\ threads'[w].pc \in StepsFrom(threads[w].pc)
              /\ threads[w].pc \notin { "unstarted", "get" } =>
                   /\ threads'[w].infile \in { threads[w].infile, NoPath }
                   /\ (threads'[w].infile = NoPath) <=> (threads[w].pc = "task_done")
         ]_vars

\* A thread is through cleanup after a decode failure: no encode was
\* attempted for the job and none of its temporary files is left.
Wit_C16 ==
    \E w \in Workers :
        /\ threads[w].pc = "task_done"
        /\ Warning("Failed to decode file", threads[w].infile) \in log
        /\ Record("info", "Encoding to file", threads[w].outfile) \notin log
        /\ threads[w].tmp_file_queue = << >>
        /\ \A t \in tmp_disk : t.job # threads[w].infile

\* The names thread w has recorded for deletion.
Pending(w) == Range(threads[w].tmp_file_queue)

\* C17: _delete_tmp_files can always run to its end, with any number of the
\* deletions failing: it leaves the thread's tmp_file_queue empty, has made at
\* most max_attempts attempts on a name, and every name that was recorded is
\* then deleted or given up (a call with nothing recorded changes no file);
\* it touches no other thread's queue. Outside a job's steps between mkstemp
\* and cleanup a thread has nothing recorded, and what is recorded belongs to
\* the job the thread holds, so that no name is carried over to a later job.
Thm_C17 ==
    /\ [](\A w \in Workers :
            /\ threads[w].pc = "delete" => ENABLED DeleteTmpFiles(w)
            /\ threads[w].pc \in { "unstarted", "get", "transcode", "create_tmp",
                                   "task_done" } => Pending(w) = {}
            /\ \A t \in Pending(w) : t.job = threads[w].infile /\ t # Sentinel
            /\ threads[w].attempts <= max_attempts)
    /\ [][\A w \in Workers :
            (threads[w].pc = "delete" /\ StepOf(w)) =>
               /\ threads'[w].pc = "task_done"
               /\ threads'[w].tmp_file_queue = << >>
               /\ threads'[w].attempts <= max_attempts
               /\ \A t \in Pending(w) : t \notin tmp_disk' \/ t \in abandoned'
               /\ Pending(w) = {} => UNCHANGED << tmp_disk, abandoned >>
               /\ \A v \in Workers \ {w} : threads'[v] = threads[v]
               /\ \A exists \in BOOLEAN : \A fails \in 0..(max_attempts + 1) :
                    LET r == RemoveLoop(0, exists, fails)
                    IN /\ r.attempts <= max_attempts
                       /\ r.exists = (exists /\ fails >= max_attempts)
         ]_vars

\* The only thread is through the cleanup of its second job, with a file of
\* that job given up after max_attempts attempts and a file of its first job
\* given up before: nothing is recorded for deletion any more.
Wit_C17 ==
    /\ job.max_threads = 1
    /\ threads[1].pc = "task_done"
    /\ threads[1].tmp_file_queue = << >>
    /\ threads[1].attempts = max_attempts
    /\ \E t \in abandoned : t.job = threads[1].infile
    /\ \E t \in abandoned : t.job # threads[1].infile

\* C18: a step of a thread that gives up a temporary file writes a log record
\* and takes the thread on to the completion signal.
Cex_C18 ==
    [][\A w \in Workers :
         (StepOf(w) /\ abandoned' # abandoned) =>
            /\ log' # log
            /\ threads'[w].pc = "task_done"
      ]_vars

\* The output path of a job: its destination joined with the name of its
\* input, the suffix replaced by the encoder's.
OutfileOf(item) ==
    CreateOutfileName(item[1], item[2], ClassSuffix(encoder_map[job.target_format]))

\* C19: any two jobs of a run with distinct input paths have distinct output
\* paths, and no two threads hold jobs with the same output path.
Cex_C19 ==
    /\ \A i, j \in enqueued : i[1] # j[1] => OutfileOf(i) # OutfileOf(j)
    /\ \A v, w \in Busy : v # w => threads[v].outfile # threads[w].outfile

\* The inputs of the jobs start() has enqueued.
EnqueuedInputs == { item[1] : item \in enqueued }

\* C20: with the threads running while start() lists the input folder, the
\* inputs enqueued are files that were in the input tree when start() was
\* called, and once the listing has ended they are all of them that the
\* pattern matches.
Cex_C20 ==
    IsDir(job.inpath) =>
      /\ EnqueuedInputs \subseteq Discoverable
      /\ Scanned => EnqueuedInputs = Discoverable

\* C21: no step deletes or overwrites an input file of the run: every file
\* that start() has enqueued as the input of a job is still there, with the
\* content it had, and no thread is about to write to the path of an input.
Cex_C21 ==
    /\ \A f \in EnqueuedInputs : IsFile(f) /\ disk[f].kind = "source"
    /\ \A w \in Workers :
         threads[w].pc \in { "create_tmp", "decode", "encode" }
         => threads[w].outfile \notin EnqueuedInputs

\* C22: whenever start() has ended, by its return or by raising an error, the
\* working directory is the one start() found when it was called.
Cex_C22 == Returned => cwd = HomeDir

\* C23: with force_overwrite, a thread that has passed the overwrite check for
\* an existing output file has deleted it and logged that: no file is at the
\* output path while the job's temporary files are created and its input is
\* decoded; and the output path of a job whose decode failed holds no file
\* from then on, neither the one an earlier run left nor a new one.
Thm_C23 ==
    /\ [](job.force_overwrite =>
            /\ \A w \in Workers :
                 threads[w].pc \in { "create_tmp", "decode" } => ~IsFile(threads[w].outfile)
            /\ \A item \in enqueued :
                 Warning("Failed to decode file", item[1]) \in log
                 => ~IsFile(OutfileOf(item)))
    /\ [][job.force_overwrite =>
            \A w \in Workers :
              ( /\ threads[w].pc = "transcode"
                /\ IsFile(threads[w].outfile)
                /\ threads'[w].pc = "create_tmp" ) =>
                   /\ ~IsFile(threads[w].outfile)'
                   /\ Record("debug", "Overwrite enabled", threads[w].outfile) \in log'
         ]_vars

\* start() has returned from a run with force_overwrite in which the output
\* an earlier run had left for a job was deleted and the job's decode failed:
\* no file is at that output path.
Wit_C23 ==
    /\ pc = "done"
    /\ job.force_overwrite
    /\ \E item \in enqueued :
         /\ Record("debug", "Overwrite enabled", OutfileOf(item)) \in log
         /\ Warning("Failed to decode file", item[1]) \in log
         /\ ~IsFile(OutfileOf(item))

====
